---- MODULE Spec2Model ----
(***************************************************************************)
(* War Room Academy: the Cloudflare worker (src/worker.js) that proxies    *)
(* chat prompts to the upstream API behind a per-IP fixed-window rate      *)
(* limiter kept in a KV namespace, and the lesson pages' script            *)
(* (src/app.js) that keeps the progress of the lessons in browser storage. *)
(*                                                                         *)
(* A request is a process in a slot of `req`.  Its steps are the stretches *)
(* of fetch() between two awaits: Receive (method checks, start of         *)
(* checkRateLimit up to the KV get), KVGet (the get resolves, the decision *)
(* is taken and the put is issued), KVPut (the put resolves), ParseBody    *)
(* (request.json() resolves; validation, credential check, upstream fetch  *)
(* issued) and UpstreamReply (the upstream answers; the response is built).*)
(* The KV namespace `store` is the only state shared between requests.     *)
(* `out` holds the response produced by the step just taken, and is empty  *)
(* after every step that sends none.                                       *)
(*                                                                         *)
(* The browser side is the two storage areas, the location of the window   *)
(* and the value returned by the last call of a function of app.js.  Of a  *)
(* storage area the model keeps the item under 'warRoomProgress'           *)
(* (localStorage, sessionStorage), the checkpoint answers                  *)
(* (localCheckpoint, sessionCheckpoint) and whether its quota is used up   *)
(* (quotaExceeded), which makes setItem throw.  The worker and the pages   *)
(* share no state.                                                         *)
(***************************************************************************)
EXTENDS Integers, Sequences, FiniteSets, TLC

VARIABLES clock, store, req, out,
          localStorage, sessionStorage, href, ret,
          localCheckpoint, sessionCheckpoint, quotaExceeded

workerVars == <<clock, store, req, out>>

appVars ==
    <<localStorage, sessionStorage, href, ret,
      localCheckpoint, sessionCheckpoint, quotaExceeded>>

vars ==
    <<clock, store, req, out, localStorage, sessionStorage, href, ret,
      localCheckpoint, sessionCheckpoint, quotaExceeded>>

-----------------------------------------------------------------------------
(* Program constants *)

RATE_LIMIT_REQUESTS == 50

RATE_LIMIT_WINDOW == 3600

DEFAULT_SYSTEM == "You are a helpful AI assistant."

(* Bounds of the model *)

\* requests that may be in flight at once
MaxInFlight == 2

\* advances of the clock in one behaviour
MaxTicks == 2

\* requests that may arrive while an earlier one is still in flight
MaxOvertake == 1

\* the environment stops sending requests without a CF-Connecting-IP header
\* once the record of the shared identifier holds this count
MaxSharedCount == 2

Slots == 1 .. MaxInFlight

-----------------------------------------------------------------------------
(* JavaScript values *)

Undefined == [t |-> "undefined"]

Null == [t |-> "null"]

Str(s) == [t |-> "string", s |-> s]

Num(n) == [t |-> "number", n |-> n]

Obj(c, r) == [t |-> "object", count |-> c, resetAt |-> r]

\* ToBoolean: what `!v`, `a || b` and `if (v)` test
Truthy(v) ==
    CASE v.t = "undefined" -> FALSE
      [] v.t = "null" -> FALSE
      [] v.t = "string" -> v.s # ""
      [] v.t = "number" -> v.n # 0
      [] v.t = "boolean" -> v.b
      [] OTHER -> TRUE

\* a || b
Or(a, b) == IF Truthy(a) THEN a ELSE b

TypeOf(v) == IF v.t = "null" THEN "object" ELSE v.t

-----------------------------------------------------------------------------
(* The KV namespace: key -> JSON text, <<>> when the key is absent.  A JSON *)
(* text is the list of the members that JSON.stringify wrote.               *)

NoValue == <<>>

JSONStringify(o) == << <<"count", o.count>>, <<"resetAt", o.resetAt>> >>

Member(text, name) ==
    LET i == CHOOSE j \in 1 .. Len(text) : text[j][1] = name IN text[i][2]

\* env.RATE_LIMIT.get(key, { type: 'json' }): null for an absent key
KVGetJSON(text) ==
    IF text = NoValue THEN Null
    ELSE Obj(Member(text, "count"), Member(text, "resetAt"))

ClientIPs == {"unknown", "203.0.113.7"}

\* mutant: one record is kept for all clients
RateLimitKey_Shared(ip) == "ratelimit:" \o "unknown"

RateLimitKey(ip) == "ratelimit:" \o ip

Keys == {RateLimitKey(ip) : ip \in ClientIPs}

\* request.headers.get('CF-Connecting-IP'): null when the header is missing
HeaderValues == {Null, Str(""), Str("203.0.113.7")}

ClientIPOf(h) == Or(h, Str("unknown")).s

-----------------------------------------------------------------------------
(* checkRateLimit's decision once the get has resolved with `data` *)

NewWindow(now) ==
    [allowed |-> TRUE, put |-> TRUE,
     value |-> Obj(1, now + RATE_LIMIT_WINDOW), ttl |-> RATE_LIMIT_WINDOW]

Denied == [allowed |-> FALSE, put |-> FALSE, value |-> Null, ttl |-> 0]

\* mutant: the increment renews the store-level expiry to a whole window
Increment_FullTtl(data, now) ==
    [allowed |-> TRUE, put |-> TRUE,
     value |-> Obj(data.count + 1, data.resetAt), ttl |-> RATE_LIMIT_WINDOW]

\* mutant: the increment restarts the window's end at the request's time
Increment_Rewinds(data, now) ==
    [allowed |-> TRUE, put |-> TRUE,
     value |-> Obj(data.count + 1, now), ttl |-> data.resetAt - now]

\* mutant: the increment writes the count back as it was read
Increment_Stuck(data, now) ==
    [allowed |-> TRUE, put |-> TRUE,
     value |-> Obj(data.count, data.resetAt), ttl |-> data.resetAt - now]

Increment(data, now) ==
    [allowed |-> TRUE, put |-> TRUE,
     value |-> Obj(data.count + 1, data.resetAt), ttl |-> data.resetAt - now]

\* mutant: the ceiling test is `>` where the code has `>=`
RateLimitDecision_OffByOne(data, now) ==
    IF ~Truthy(data) THEN NewWindow(now)
    ELSE IF now > data.resetAt THEN NewWindow(now)
    ELSE IF data.count > RATE_LIMIT_REQUESTS THEN Denied
    ELSE Increment(data, now)

\* mutant: the window test is `>=` where the code has `>`
RateLimitDecision_WindowInclusive(data, now) ==
    IF ~Truthy(data) THEN NewWindow(now)
    ELSE IF now >= data.resetAt THEN NewWindow(now)
    ELSE IF data.count >= RATE_LIMIT_REQUESTS THEN Denied
    ELSE Increment(data, now)

\* mutant: an increment restarts the window (a sliding window)
RateLimitDecision_Sliding(data, now) ==
    IF ~Truthy(data) THEN NewWindow(now)
    ELSE IF now > data.resetAt THEN NewWindow(now)
    ELSE IF data.count >= RATE_LIMIT_REQUESTS THEN Denied
    ELSE [allowed |-> TRUE, put |-> TRUE,
          value |-> Obj(data.count + 1, now + RATE_LIMIT_WINDOW),
          ttl |-> RATE_LIMIT_WINDOW]

\* mutant: the ceiling is tested before the expiry of the window
RateLimitDecision_LimitFirst(data, now) ==
    IF ~Truthy(data) THEN NewWindow(now)
    ELSE IF data.count >= RATE_LIMIT_REQUESTS THEN Denied
    ELSE IF now > data.resetAt THEN NewWindow(now)
    ELSE Increment(data, now)

RateLimitDecision(data, now) ==
    IF ~Truthy(data) THEN NewWindow(now)
    ELSE IF now > data.resetAt THEN NewWindow(now)
    ELSE IF data.count >= RATE_LIMIT_REQUESTS THEN Denied
    ELSE Increment(data, now)

-----------------------------------------------------------------------------
(* Responses *)

NoBody == [kind |-> "none", text |-> ""]

TextBody(s) == [kind |-> "text", text |-> s]

ErrorBody(s) == [kind |-> "error", text |-> s]

ResponseBody(s) == [kind |-> "response", text |-> s]

NoCall == [system |-> Undefined, content |-> Undefined]

\* no error reply of the upstream has been read
NoReply == [status |-> 0, text |-> ""]

\* A slot with no request in it.  now, data, putValue and putTtl are the
\* locals of checkRateLimit; kv is how checkRateLimit ended; allowed is
\* rateLimitResult.allowed; reads, puts and upCalls count the calls the
\* request has issued; body and sent are the parsed request body and the
\* upstream request while the upstream call is in flight; reply is the
\* status and the text of an upstream error reply the handler has read;
\* apiKey is env.ANTHROPIC_API_KEY once the body has been parsed; caught is
\* the message of the exception that the outer catch of fetch() caught.
IdleReq ==
    [pc |-> "idle", method |-> "", clientIP |-> "", now |-> 0,
     data |-> Null, putValue |-> Null, putTtl |-> 0,
     kv |-> "none", allowed |-> FALSE,
     reads |-> 0, puts |-> 0, upCalls |-> 0,
     body |-> Undefined, apiKey |-> Undefined, sent |-> NoCall,
     reply |-> NoReply, caught |-> "", overtaken |-> 0]

NoResponse == [slot |-> 0, status |-> 0, body |-> NoBody, req |-> IdleReq]

\* what a response records of its request: whose it was, how its quota
\* check ended, the body it carried and the calls it made
Summary(r) ==
    [IdleReq EXCEPT !.method = r.method, !.clientIP = r.clientIP,
                    !.kv = r.kv, !.allowed = r.allowed, !.body = r.body,
                    !.reads = r.reads, !.puts = r.puts, !.upCalls = r.upCalls,
                    !.reply = r.reply, !.apiKey = r.apiKey,
                    !.caught = r.caught]

\* the request in slot s ends with this response; the slot is free again
Respond(s, r, status, body) ==
    /\ out' = [slot |-> s, status |-> status, body |-> body,
               req |-> Summary(r)]
    /\ req' = [req EXCEPT ![s] = IdleReq]

\* mutant: the catch sends the message of the exception to the caller
CatchAll_Leaks(s, r, error) ==
    Respond(s, [r EXCEPT !.caught = error], 500, ErrorBody(error))

\* the outer catch of fetch(): the exception is logged only
CatchAll(s, r, error) ==
    Respond(s, [r EXCEPT !.caught = error], 500,
            ErrorBody("An unexpected error occurred"))

Continue(s, r) ==
    /\ req' = [req EXCEPT ![s] = r]
    /\ out' = NoResponse

-----------------------------------------------------------------------------
(* The lesson pages (src/app.js): browser storage and its JSON texts *)

\* the lessons of module 1
LastLesson == 4

Lessons == 1 .. LastLesson

LessonKey(i) == "lesson" \o ToString(i)

LessonPage(i) == "lesson-" \o ToString(i) \o ".html"

Bool(b) == [t |-> "boolean", b |-> b]

\* what a throwing expression evaluates to
Threw == [t |-> "throw"]

\* What Storage.getItem finds under 'warRoomProgress': nothing ("absent"),
\* a text that JSON.stringify wrote for a progress object ("progress", with
\* the members of module1 in the order written), or another text
\* ("literal", the text in s).  A storage area that the browser has
\* disabled throws on every access ("disabled").
AbsentItem == [kind |-> "absent", s |-> "", members |-> <<>>]

DisabledStorage == [kind |-> "disabled", s |-> "", members |-> <<>>]

Literal(s) == [kind |-> "literal", s |-> s, members |-> <<>>]

\* JSON.stringify(progress) for a progress object with a module1 object
ProgressText(module1) ==
    [kind |-> "progress", s |-> "",
     members |-> [i \in 1 .. Len(module1.names) |->
                     <<module1.names[i], module1.fields[module1.names[i]].b>>]]

\* the object { lesson1: .., lesson2: .., .. } with its keys in order
Module1(names, done) ==
    [t |-> "object", names |-> names,
     fields |-> [k \in {names[i] : i \in 1 .. Len(names)} |-> Bool(k \in done)]]

Progress(module1) == [t |-> "object", module1 |-> module1]

LessonNames == [i \in Lessons |-> LessonKey(i)]

\* the default progress structure of getProgressData
DefaultProgress == Progress(Module1(LessonNames, {}))

\* JSON.parse
JSONParse(text) ==
    IF text.kind = "progress"
    THEN Progress(
            [t |-> "object",
             names |-> [i \in 1 .. Len(text.members) |-> text.members[i][1]],
             fields |-> [k \in {text.members[i][1] :
                                   i \in 1 .. Len(text.members)} |->
                            Bool(Member(text.members, k))]])
    ELSE CASE text.s = "null" -> Null
           [] text.s = "{}" -> [t |-> "object", module1 |-> Undefined]
           [] text.s = "5" -> Num(5)
           [] text.s = "{\"module1\":7}" ->
                  [t |-> "object", module1 |-> Num(7)]
           [] OTHER -> Threw                       \* SyntaxError

\* the value of the string `stored` in `if (stored)` and in `a || b`
TruthyItem(item) ==
    item.kind = "progress" \/ (item.kind = "literal" /\ item.s # "")

\* localStorage.getItem('warRoomProgress') ||
\* sessionStorage.getItem('warRoomProgress')
StoredItem(local, session) ==
    IF local.kind = "disabled" THEN Threw
    ELSE IF TruthyItem(local) THEN local
    ELSE IF session.kind = "disabled" THEN Threw
    ELSE session

\* getProgressData()
GetProgressData(local, session) ==
    LET stored == StoredItem(local, session) IN
        IF stored = Threw THEN DefaultProgress
        ELSE IF ~TruthyItem(stored) THEN DefaultProgress
        ELSE LET parsed == JSONParse(stored) IN
                 IF parsed = Threw THEN DefaultProgress ELSE parsed

\* progress.module1
Module1Of(progress) ==
    IF progress.t \in {"undefined", "null"} THEN Threw      \* TypeError
    ELSE IF progress.t = "object" THEN progress.module1
    ELSE Undefined

\* progress.module1[key]
LessonOf(progress, key) ==
    LET module1 == Module1Of(progress) IN
        IF module1 = Threw THEN Threw
        ELSE IF module1.t \in {"undefined", "null"} THEN Threw  \* TypeError
        ELSE IF module1.t = "object" /\ key \in DOMAIN module1.fields
             THEN module1.fields[key]
        ELSE Undefined

RECURSIVE LastCompletedFrom(_, _)
\* the loop of getLastCompletedLesson from i downwards
LastCompletedFrom(progress, i) ==
    IF i < 1 THEN Num(0)
    ELSE LET lesson == LessonOf(progress, LessonKey(i)) IN
             IF lesson = Threw THEN Threw
             ELSE IF lesson = Bool(TRUE) THEN Num(i)
             ELSE LastCompletedFrom(progress, i - 1)

\* mutant: the loop runs upwards and returns the first completed lesson
GetLastCompletedLesson_Lowest(local, session) ==
    LET progress == GetProgressData(local, session)
        done == {i \in Lessons : LessonOf(progress, LessonKey(i)) = Bool(TRUE)}
    IN  IF done = {} THEN Num(0)
        ELSE Num(CHOOSE i \in done : \A j \in done : i <= j)

\* getLastCompletedLesson()
GetLastCompletedLesson(local, session) ==
    LastCompletedFrom(GetProgressData(local, session), LastLesson)

\* mutant: the lesson itself is tested, not the one before it
PreviousLesson_Same(lessonNumber) == lessonNumber

PreviousLesson(lessonNumber) == lessonNumber - 1

\* checkAccess(lessonNumber): the value returned, and the location that
\* window.location.href is set to ("" when it is left alone)
\* mutant: checkAccess lets every lesson through
CheckAccessResult_Open(lessonNumber, local, session) ==
    [value |-> TRUE, href |-> ""]

CheckAccessResult(lessonNumber, local, session) ==
    LET progress == GetProgressData(local, session) IN
        IF lessonNumber = 1 THEN [value |-> TRUE, href |-> ""]
        ELSE LET previous == LessonOf(progress,
                                      LessonKey(PreviousLesson(lessonNumber)))
             IN  IF previous = Threw
                 THEN [value |-> TRUE, href |-> ""]           \* fail open
                 ELSE IF previous = Bool(TRUE)
                 THEN [value |-> TRUE, href |-> ""]
                 ELSE LET lastCompleted ==
                              GetLastCompletedLesson(local, session)
                      IN  IF lastCompleted = Threw
                          THEN [value |-> TRUE, href |-> ""]  \* fail open
                          ELSE [value |-> FALSE,
                                href |-> IF lastCompleted.n > 0
                                         THEN LessonPage(lastCompleted.n)
                                         ELSE "index.html"]

\* value is what checkAccess returned, percent what getProgress returned
NoReturn == [fn |-> "", arg |-> 0, value |-> FALSE, percent |-> Undefined]

\* the page lesson-<lessonNumber>.html loads and calls checkAccess
CheckAccess(lessonNumber) ==
    /\ LET r == CheckAccessResult(lessonNumber, localStorage, sessionStorage)
       IN  /\ ret' = [NoReturn EXCEPT !.fn = "checkAccess",
                                      !.arg = lessonNumber,
                                      !.value = r.value]
           /\ href' = IF r.href # "" THEN r.href ELSE LessonPage(lessonNumber)
    /\ UNCHANGED <<localStorage, sessionStorage, localCheckpoint,
                   sessionCheckpoint, quotaExceeded, workerVars>>

(* saveProgress, saveCheckpoint, getProgress *)

Areas == {"local", "session"}

\* setItem on the area succeeds
CanWrite(item, area, full) == item.kind # "disabled" /\ area \notin full

\* module1[key] = true
SetLesson(module1, key) ==
    [t |-> "object",
     names |-> IF key \in DOMAIN module1.fields THEN module1.names
               ELSE Append(module1.names, key),
     fields |-> [k \in DOMAIN module1.fields \cup {key} |->
                    IF k = key THEN Bool(TRUE) ELSE module1.fields[k]]]

\* saveProgress(lessonNumber): the items under 'warRoomProgress' afterwards.
\* `progress` is declared in the try block, so the catch block's
\* JSON.stringify(progress) throws a ReferenceError before setItem is
\* called, and the inner catch swallows it.
SaveProgressResult(lessonNumber, local, session, full) ==
    LET progress == GetProgressData(local, session)
        module1 == Module1Of(progress)
    IN  IF module1 = Threw \/ module1.t \in {"undefined", "null"}
        THEN [local |-> local, session |-> session]         \* TypeError
        ELSE LET text == IF module1.t = "object"
                         THEN ProgressText(SetLesson(module1,
                                               LessonKey(lessonNumber)))
                         ELSE StoredItem(local, session)  \* nothing is set
             IN  IF CanWrite(local, "local", full)
                 THEN [local |-> text, session |-> session]
                 ELSE [local |-> local, session |-> session]

SaveProgress(lessonNumber) ==
    /\ LET r == SaveProgressResult(lessonNumber, localStorage,
                                   sessionStorage, quotaExceeded)
       IN  /\ localStorage' = r.local
           /\ sessionStorage' = r.session
    /\ ret' = [NoReturn EXCEPT !.fn = "saveProgress", !.arg = lessonNumber]
    /\ UNCHANGED <<href, localCheckpoint, sessionCheckpoint, quotaExceeded,
                   workerVars>>

CheckpointAnswers == {"The frame decides what the model attends to."}

NoCheckpoints == [i \in Lessons |-> AbsentItem]

\* saveCheckpoint(lessonNumber, answer)
SaveCheckpoint(lessonNumber, answer) ==
    /\ IF CanWrite(localStorage, "local", quotaExceeded)
       THEN /\ localCheckpoint' =
                   [localCheckpoint EXCEPT ![lessonNumber] = Literal(answer)]
            /\ LET r == SaveProgressResult(lessonNumber, localStorage,
                                           sessionStorage, quotaExceeded)
               IN  /\ localStorage' = r.local
                   /\ sessionStorage' = r.session
            /\ UNCHANGED sessionCheckpoint
       ELSE /\ sessionCheckpoint' =
                   IF CanWrite(sessionStorage, "session", quotaExceeded)
                   THEN [sessionCheckpoint EXCEPT
                            ![lessonNumber] = Literal(answer)]
                   ELSE sessionCheckpoint
            /\ UNCHANGED <<localStorage, sessionStorage, localCheckpoint>>
    /\ ret' = [NoReturn EXCEPT !.fn = "saveCheckpoint", !.arg = lessonNumber]
    /\ UNCHANGED <<href, quotaExceeded, workerVars>>

NaN == [t |-> "NaN"]

\* mutant: the ratio is rounded without the factor 100
RoundedPercent_Ratio(num, den) == (2 * num + den) \div (2 * den)

\* Math.round(num / den * 100) for num >= 0, den > 0
RoundedPercent(num, den) == (200 * num + den) \div (2 * den)

\* getProgress()
GetProgressResult(local, session) ==
    LET module1 == Module1Of(GetProgressData(local, session)) IN
        IF module1 = Threw \/ module1.t \in {"undefined", "null"}
        THEN Num(0)                                        \* the catch
        ELSE IF module1.t # "object" THEN NaN     \* Object.values(7) = []
        ELSE LET total == Len(module1.names)
                 completed == Cardinality(
                     {i \in 1 .. total :
                         module1.fields[module1.names[i]] = Bool(TRUE)})
             IN  IF total = 0 THEN NaN
                 ELSE Num(RoundedPercent(completed, total))

GetProgress ==
    /\ ret' = [NoReturn EXCEPT
                  !.fn = "getProgress",
                  !.percent = GetProgressResult(localStorage, sessionStorage)]
    /\ UNCHANGED <<localStorage, sessionStorage, href, localCheckpoint,
                   sessionCheckpoint, quotaExceeded, workerVars>>

\* the quota of a storage area is used up from now on
QuotaFills(area) ==
    /\ area \notin quotaExceeded
    /\ quotaExceeded' = quotaExceeded \cup {area}
    /\ ret' = NoReturn
    /\ UNCHANGED <<localStorage, sessionStorage, href, localCheckpoint,
                   sessionCheckpoint, workerVars>>

\* the sets of lessons that a stored progress text marks complete
DoneSets == SUBSET Lessons

\* what a storage area may hold under 'warRoomProgress'
StoredItems ==
    {AbsentItem, DisabledStorage}
    \cup {Literal(s) : s \in {"", "not json", "null", "{}", "5",
                             "{\"module1\":7}"}}
    \cup {ProgressText(Module1(LessonNames, {LessonKey(i) : i \in done})) :
             done \in DoneSets}

-----------------------------------------------------------------------------
Init ==
    /\ clock = 0
    /\ store = [k \in Keys |-> NoValue]
    /\ req = [s \in Slots |-> IdleReq]
    /\ out = NoResponse
    /\ localStorage = AbsentItem
    /\ sessionStorage = AbsentItem
    /\ href = "index.html"
    /\ ret = NoReturn
    /\ localCheckpoint = NoCheckpoints
    /\ sessionCheckpoint = NoCheckpoints
    /\ quotaExceeded = {}

-----------------------------------------------------------------------------
(* The environment *)

Methods == {"OPTIONS", "POST", "GET", "DELETE"}

\* the clock advances by a second or by a whole window
TickSteps == {1, RATE_LIMIT_WINDOW}

TicksTaken == (clock \div RATE_LIMIT_WINDOW) + (clock % RATE_LIMIT_WINDOW)

Tick ==
    /\ TicksTaken < MaxTicks
    /\ \E d \in TickSteps : clock' = clock + d
    /\ out' = NoResponse
    /\ UNCHANGED <<store, req, appVars>>

InFlight(s) == req[s].pc # "idle"

StoredCount(k) == IF store[k] = NoValue THEN 0 ELSE KVGetJSON(store[k]).count

\* the arrivals the bounds admit
MayArrive(s, h) ==
    /\ \A u \in Slots : u < s => InFlight(u)    \* the lowest free slot
    /\ \A u \in Slots \ {s} : InFlight(u) => req[u].overtaken < MaxOvertake
    /\ ClientIPOf(h) = "unknown" =>
           StoredCount(RateLimitKey("unknown")) < MaxSharedCount

Overtake(s, r) ==
    [u \in Slots |->
        IF u = s THEN r
        ELSE IF InFlight(u)
             THEN [req[u] EXCEPT !.overtaken = @ + 1]
             ELSE req[u]]

-----------------------------------------------------------------------------
(* fetch(request, env) up to its first await *)

\* checkRateLimit(env, clientIP) up to `await env.RATE_LIMIT.get`;
\* bound: env.RATE_LIMIT is bound
StartRateLimit(s, r, bound) ==
    /\ out' = NoResponse
    /\ IF ~bound
       THEN req' = Overtake(s, [r EXCEPT !.pc = "parse", !.kv = "unbound",
                                         !.allowed = TRUE])
       ELSE req' = Overtake(s, [r EXCEPT !.pc = "get", !.now = clock])

\* mutant: the pre-flight is answered after the quota check
HandleCORS_AfterQuota(s, r) ==
    /\ req' = [req EXCEPT ![s] = [r EXCEPT !.pc = "get", !.now = clock]]
    /\ out' = NoResponse

\* handleCORS()
HandleCORS(s, r) == Respond(s, r, 204, NoBody)

\* mutant: the 405 is sent with a null body
MethodNotAllowed_Empty(s, r) == Respond(s, r, 405, NoBody)

MethodNotAllowed(s, r) == Respond(s, r, 405, TextBody("Method not allowed"))

Receive(s, m, h, bound) ==
    /\ req[s].pc = "idle"
    /\ MayArrive(s, h)
    /\ LET r == [IdleReq EXCEPT !.method = m, !.clientIP = ClientIPOf(h)] IN
         IF m = "OPTIONS" THEN HandleCORS(s, r)
         ELSE IF m # "POST" THEN MethodNotAllowed(s, r)
         ELSE StartRateLimit(s, r, bound)
    /\ UNCHANGED <<clock, store, appVars>>

-----------------------------------------------------------------------------
(* checkRateLimit: the get resolves *)

\* mutant: the 429 is built but not returned, and fetch goes on
RateLimited_FallsThrough(s, r) ==
    /\ req' = [req EXCEPT ![s] = [r EXCEPT !.pc = "parse"]]
    /\ out' = NoResponse

RateLimited(s, r) ==
    Respond(s, r, 429,
            ErrorBody("Rate limit exceeded. Please try again later."))

\* checkRateLimit returns { allowed: true }; fetch awaits request.json()
Allowed(s, r, how) ==
    Continue(s, [r EXCEPT !.pc = "parse", !.kv = how, !.allowed = TRUE])

\* mutant: a failing quota store rejects the request (fail closed)
FailOpen_Closed(s, r, why) == RateLimited(s, [r EXCEPT !.kv = why])

\* the catch of checkRateLimit: fail open
FailOpen(s, r, why) == Allowed(s, r, why)

KVGetThrows(s) ==
    /\ req[s].pc = "get"
    /\ FailOpen(s, [req[s] EXCEPT !.reads = @ + 1], "getThrew")
    /\ UNCHANGED <<clock, store, appVars>>

KVGet(s) ==
    /\ req[s].pc = "get"
    /\ LET data == KVGetJSON(store[RateLimitKey(req[s].clientIP)])
           d == RateLimitDecision(data, req[s].now)
           r == [req[s] EXCEPT !.reads = @ + 1, !.data = data]
       IN  IF ~d.allowed
           THEN RateLimited(s, [r EXCEPT !.kv = "denied"])
           ELSE Continue(s, [r EXCEPT !.pc = "put", !.puts = @ + 1,
                                      !.putValue = d.value, !.putTtl = d.ttl])
    /\ UNCHANGED <<clock, store, appVars>>

(* checkRateLimit: the put resolves *)

\* mutant: a failed put is issued again
KVPutThrows_Retries(s) ==
    /\ req[s].pc = "put"
    /\ Continue(s, [req[s] EXCEPT !.puts = @ + 1])
    /\ UNCHANGED <<clock, store, appVars>>

KVPutThrows(s) ==
    /\ req[s].pc = "put"
    /\ FailOpen(s, req[s], "putThrew")
    /\ UNCHANGED <<clock, store, appVars>>

\* mutant: the write is an atomic increment of the stored record
KVPut_Atomic(s) ==
    /\ req[s].pc = "put"
    /\ LET k == RateLimitKey(req[s].clientIP)
           cur == KVGetJSON(store[k])
       IN  store' = [store EXCEPT ![k] =
                        IF Truthy(cur) /\ req[s].putValue.count > 1
                        THEN JSONStringify(Obj(cur.count + 1, cur.resetAt))
                        ELSE JSONStringify(req[s].putValue)]
    /\ req' = [req EXCEPT ![s] = [req[s] EXCEPT !.pc = "parse",
                                   !.kv = "written", !.allowed = TRUE]]
    /\ out' = NoResponse
    /\ UNCHANGED <<clock, appVars>>

KVPut(s) ==
    /\ req[s].pc = "put"
    /\ store' = [store EXCEPT ![RateLimitKey(req[s].clientIP)] =
                                  JSONStringify(req[s].putValue)]
    /\ Allowed(s, req[s], "written")
    /\ UNCHANGED <<clock, appVars>>

-----------------------------------------------------------------------------
(* fetch: request.json() resolves; validation, credential, upstream call *)

PromptValues == {Undefined, Str(""), Str("Hello"), Num(42)}

MessageValues == {Undefined, Str(""), Str("Hi")}

SystemValues == {Undefined, Str(""), Str("Be terse")}

\* the bodies request.json() can resolve with: a JSON object, or null
Bodies ==
    {[t |-> "object", prompt |-> p, message |-> m, system |-> y] :
        p \in PromptValues, m \in MessageValues, y \in SystemValues}
    \cup {Null}

\* env.ANTHROPIC_API_KEY
ApiKeys == {Undefined, Str(""), Str("sk-ant-test")}

\* const promptText = body.prompt || body.message
PromptText(body) == Or(body.prompt, body.message)

\* mutant: the typeof test is missing
ValidPrompt_AnyTruthy(promptText) == Truthy(promptText)

ValidPrompt(promptText) == Truthy(promptText) /\ TypeOf(promptText) = "string"

\* mutant: the default persona is missing
UpstreamRequest_NoDefault(body, promptText) ==
    [system |-> body.system, content |-> promptText]

\* the body of the call to ANTHROPIC_API_URL
UpstreamRequest(body, promptText) ==
    [system |-> Or(body.system, Str(DEFAULT_SYSTEM)), content |-> promptText]

BadRequest(s, r) ==
    Respond(s, r, 400, ErrorBody("Invalid request: prompt is required"))

\* mutant: the credential test is missing, the call goes out without a key
Misconfigured_CallsAnyway(s, r) ==
    Continue(s, [r EXCEPT !.pc = "upstream", !.upCalls = @ + 1])

Misconfigured(s, r) ==
    Respond(s, r, 500, ErrorBody("Service configuration error"))

\* the locals of checkRateLimit are gone once the upstream call is issued
CallUpstream(s, r, body, promptText) ==
    Continue(s, [r EXCEPT !.pc = "upstream", !.upCalls = @ + 1,
                          !.now = 0, !.data = Null, !.putValue = Null,
                          !.putTtl = 0, !.kv = "none",
                          !.sent = UpstreamRequest(body, promptText)])

\* what request.json() rejects with
ParseErrors ==
    {"SyntaxError: Unexpected end of JSON input",
     "SyntaxError: Unexpected token h in JSON at position 0"}

NotJSON == "SyntaxError: Unexpected end of JSON input"

NullBodyError == "TypeError: Cannot read properties of null"

\* request.json() rejects: the body is no JSON text
BodyMalformed(s, error) ==
    /\ req[s].pc = "parse"
    /\ CatchAll(s, req[s], error)
    /\ UNCHANGED <<clock, store, appVars>>

ParseBody(s, body, apiKey) ==
    /\ req[s].pc = "parse"
    /\ LET r == [req[s] EXCEPT !.body = body, !.apiKey = apiKey] IN
         IF body.t # "object"
         THEN CatchAll(s, r, NullBodyError)     \* body.prompt of null
         ELSE LET promptText == PromptText(body) IN
              IF ~ValidPrompt(promptText) THEN BadRequest(s, r)
              ELSE IF ~Truthy(apiKey) THEN Misconfigured(s, r)
              ELSE CallUpstream(s, r, body, promptText)
    /\ UNCHANGED <<clock, store, appVars>>

-----------------------------------------------------------------------------
(* fetch: the upstream call resolves *)

TextBlock(s) == [type |-> "text", text |-> s]

ToolBlock == [type |-> "tool_use", text |-> ""]

\* data.content of a 2xx reply
Contents ==
    { <<>>,
      <<TextBlock("A")>>,
      <<ToolBlock, TextBlock("A")>>,
      <<TextBlock("A"), ToolBlock, TextBlock("B")>>,
      <<TextBlock("B"), TextBlock("A")>> }

ErrorStatuses == {401, 529}

ErrorTexts == {"overloaded_error", "invalid x-api-key"}

RECURSIVE Join(_, _)
\* Array.prototype.join
Join(texts, sep) ==
    IF texts = <<>> THEN ""
    ELSE IF Len(texts) = 1 THEN texts[1]
    ELSE texts[1] \o sep \o Join(Tail(texts), sep)

\* data.content.filter(type === 'text').map(text).join('\n')
ResponseText(content) ==
    LET texts == SelectSeq(content, LAMBDA b : b.type = "text")
    IN  Join([i \in 1 .. Len(texts) |-> texts[i].text], "\n")

\* what is left of the request once the upstream call has resolved
Replied(r) == [r EXCEPT !.body = Undefined, !.sent = NoCall]

\* mutant: the upstream's status and error text are relayed to the caller
Unavailable_Relay(s, r, status, errorText) ==
    Respond(s, [r EXCEPT !.reply = [status |-> status, text |-> errorText]],
            status, ErrorBody(errorText))

\* errorText = await anthropicResponse.text() is read and logged only
Unavailable(s, r, status, errorText) ==
    Respond(s, [r EXCEPT !.reply = [status |-> status, text |-> errorText]],
            503, ErrorBody("AI service temporarily unavailable"))

\* what the await of fetch(), of anthropicResponse.text() or .json(), or the
\* extraction from data.content throws
UpstreamFailures ==
    {"TypeError: fetch failed",
     "TypeError: data.content.filter is not a function"}

\* fetch() rejects, anthropicResponse.json() rejects, or data.content is
\* no array
UpstreamThrows(s, error) ==
    /\ req[s].pc = "upstream"
    /\ CatchAll(s, Replied(req[s]), error)
    /\ UNCHANGED <<clock, store, appVars>>

\* !anthropicResponse.ok
UpstreamError(s, status, errorText) ==
    /\ req[s].pc = "upstream"
    /\ Unavailable(s, Replied(req[s]), status, errorText)
    /\ UNCHANGED <<clock, store, appVars>>

UpstreamOk(s, content) ==
    /\ req[s].pc = "upstream"
    /\ Respond(s, Replied(req[s]), 200, ResponseBody(ResponseText(content)))
    /\ UNCHANGED <<clock, store, appVars>>

-----------------------------------------------------------------------------
(* Specifications *)

ThisClient == Str("203.0.113.7")

\* the steps of the request in slot s, whatever its inputs
Handle(s) ==
    \/ KVGet(s)
    \/ KVGetThrows(s)
    \/ KVPut(s)
    \/ KVPutThrows(s)
    \/ \E body \in Bodies, apiKey \in ApiKeys : ParseBody(s, body, apiKey)
    \/ \E error \in ParseErrors : BodyMalformed(s, error)
    \/ \E content \in Contents : UpstreamOk(s, content)
    \/ \E status \in ErrorStatuses, errorText \in ErrorTexts :
           UpstreamError(s, status, errorText)
    \/ \E error \in UpstreamFailures : UpstreamThrows(s, error)

\* one client, one request at a time, every input
Next ==
    \/ Tick
    \/ \E m \in Methods, bound \in BOOLEAN : Receive(1, m, ThisClient, bound)
    \/ Handle(1)

Spec == Init /\ [][Next]_vars

\* overlapping POSTs of one client with the namespace bound and working;
\* the requests end when their body turns out to be no JSON text
NextConc ==
    \/ Tick
    \/ \E s \in Slots : Receive(s, "POST", ThisClient, TRUE)
    \/ \E s \in Slots : KVGet(s)
    \/ \E s \in Slots : KVPut(s)
    \/ \E s \in Slots : BodyMalformed(s, NotJSON)

SpecConc == Init /\ [][NextConc]_vars

\* POSTs one at a time from two client identifiers (requests without the
\* header share 'unknown'), the namespace bound and working
NextIso ==
    \/ Tick
    \/ \E h \in HeaderValues : Receive(1, "POST", h, TRUE)
    \/ KVGet(1)
    \/ KVPut(1)
    \/ BodyMalformed(1, NotJSON)

SpecIso == Init /\ [][NextIso]_vars

\* the lesson pages over every stored progress: a page load calls
\* checkAccess
InitApp ==
    /\ clock = 0
    /\ store = [k \in Keys |-> NoValue]
    /\ req = [s \in Slots |-> IdleReq]
    /\ out = NoResponse
    /\ localStorage \in StoredItems
    /\ sessionStorage \in StoredItems
    /\ href = "index.html"
    /\ ret = NoReturn
    /\ localCheckpoint = NoCheckpoints
    /\ sessionCheckpoint = NoCheckpoints
    /\ quotaExceeded = {}

NextApp == \E lessonNumber \in Lessons : CheckAccess(lessonNumber)

SpecApp == InitApp /\ [][NextApp]_vars

\* the lesson pages from empty progress: any calls in any order, each
\* storage area working, disabled, or running out of quota at some point
InitProgress ==
    /\ clock = 0
    /\ store = [k \in Keys |-> NoValue]
    /\ req = [s \in Slots |-> IdleReq]
    /\ out = NoResponse
    /\ localStorage \in {AbsentItem, DisabledStorage}
    /\ sessionStorage \in {AbsentItem, DisabledStorage}
    /\ href = "index.html"
    /\ ret = NoReturn
    /\ localCheckpoint = NoCheckpoints
    /\ sessionCheckpoint = NoCheckpoints
    /\ quotaExceeded = {}

NextProgress ==
    \/ \E lessonNumber \in Lessons : CheckAccess(lessonNumber)
    \/ \E lessonNumber \in Lessons : SaveProgress(lessonNumber)
    \/ \E lessonNumber \in Lessons, answer \in CheckpointAnswers :
           SaveCheckpoint(lessonNumber, answer)
    \/ GetProgress
    \/ \E area \in Areas : QuotaFills(area)

SpecProgress == InitProgress /\ [][NextProgress]_vars

\* the last page load was denied: checkAccess returned false and has set
\* window.location.href, so the page is being left
PageDenied == ret.fn = "checkAccess" /\ ~ret.value

\* the window shows lesson-<lessonNumber>.html and the checkAccess of its
\* load returned true
OnLessonPage(lessonNumber) == href = LessonPage(lessonNumber) /\ ~PageDenied

\* the course as its pages run it, from empty progress: a lesson is
\* completed only on its own page, after the checkAccess of the page load
\* returned true; a denied load is followed by the load of another page
NextCourse ==
    \/ \E lessonNumber \in Lessons : CheckAccess(lessonNumber)
    \/ \E lessonNumber \in Lessons :
           OnLessonPage(lessonNumber) /\ SaveProgress(lessonNumber)
    \/ \E lessonNumber \in Lessons, answer \in CheckpointAnswers :
           OnLessonPage(lessonNumber) /\ SaveCheckpoint(lessonNumber, answer)
    \/ ~PageDenied /\ GetProgress
    \/ \E area \in Areas : ~PageDenied /\ QuotaFills(area)

SpecCourse == InitProgress /\ [][NextCourse]_vars

-----------------------------------------------------------------------------
(* The claims *)

KeyOf(r) == RateLimitKey(r.clientIP)

Stored(k) == KVGetJSON(store[k])

\* the get of the request in slot s resolves in this step, with a value
GetResolved(s) ==
    /\ req[s].pc = "get"
    /\ req'[s].pc # "get"
    /\ req'[s].kv # "getThrew"

\* the put of the request in slot s resolves in this step, without throwing
PutResolved(s) ==
    /\ req[s].pc = "put"
    /\ req'[s].kv = "written"

\* the step answers the request in slot s with this status
Answers(s, status) == out'.slot = s /\ out'.status = status

AtCeiling(s) ==
    /\ store[KeyOf(req[s])] # NoValue
    /\ Stored(KeyOf(req[s])).count = RATE_LIMIT_REQUESTS
    /\ req[s].now <= Stored(KeyOf(req[s])).resetAt

UnderCeiling(s) ==
    /\ store[KeyOf(req[s])] # NoValue
    /\ Stored(KeyOf(req[s])).count < RATE_LIMIT_REQUESTS
    /\ req[s].now <= Stored(KeyOf(req[s])).resetAt

AbsentOrExpired(s) ==
    \/ store[KeyOf(req[s])] = NoValue
    \/ Stored(KeyOf(req[s])).resetAt < req[s].now

\* C1: in every reachable state, whatever the interleaving of the requests,
\* the count of every stored record is at least 1 and at most
\* RATE_LIMIT_REQUESTS.
C1_CountWithinCeiling ==
    \A k \in Keys :
        store[k] # NoValue =>
            /\ Stored(k).count >= 1
            /\ Stored(k).count <= RATE_LIMIT_REQUESTS

\* the record is at the ceiling while a write of another request is pending
C1_Witness ==
    \E s \in Slots :
        /\ req[s].pc = "put"
        /\ StoredCount(KeyOf(req[s])) = RATE_LIMIT_REQUESTS

\* C2: requests one after another, the store working: a POST that finds the
\* stored count at the ceiling with now <= resetAt is answered 429 and leaves
\* the store as it was, and no other POST whose get resolves is answered
\* 429; so the client gets RATE_LIMIT_REQUESTS allowances and then only 429
\* until the time passes resetAt.
C2_CeilingRejects ==
    [][\A s \in Slots :
          GetResolved(s) =>
              /\ AtCeiling(s) <=> Answers(s, 429)
              /\ AtCeiling(s) => store' = store]_vars

\* a request has just been answered 429 and the record is at the ceiling
C2_Witness ==
    /\ out.status = 429
    /\ out.req.kv = "denied"
    /\ Stored(KeyOf(out.req)).count = RATE_LIMIT_REQUESTS

\* C3: requests one after another, the store working: a POST that finds a
\* record with count below the ceiling and now <= resetAt passes the quota
\* check, and its write leaves the stored count one higher and resetAt as it
\* was.
C3_IncrementsByOne ==
    [][\A s \in Slots :
          /\ (GetResolved(s) /\ UnderCeiling(s)) =>
                 req'[s].pc = "put" /\ out' = NoResponse
          /\ (PutResolved(s) /\ UnderCeiling(s)) =>
                 /\ req'[s].allowed
                 /\ KVGetJSON(store'[KeyOf(req[s])]) =
                        Obj(Stored(KeyOf(req[s])).count + 1,
                            Stored(KeyOf(req[s])).resetAt)]_vars

\* an allowed request has raised an existing record from count to count + 1
C3_Witness ==
    \E s \in Slots :
        /\ req[s].pc = "parse"
        /\ req[s].kv = "written"
        /\ req[s].data.t = "object"
        /\ req[s].now <= req[s].data.resetAt
        /\ req[s].now > 0
        /\ Stored(KeyOf(req[s])) =
               Obj(req[s].data.count + 1, req[s].data.resetAt)

\* C4: the store working, a POST that finds no record, or a record with
\* resetAt < now, passes the quota check whatever the old count, and its
\* write leaves the record {count: 1, resetAt: now + RATE_LIMIT_WINDOW}.
C4_FreshWindow ==
    [][\A s \in Slots :
          /\ (GetResolved(s) /\ AbsentOrExpired(s)) =>
                 req'[s].pc = "put" /\ out' = NoResponse
          /\ (PutResolved(s) /\ AbsentOrExpired(s)) =>
                 /\ req'[s].allowed
                 /\ KVGetJSON(store'[KeyOf(req[s])]) =
                        Obj(1, req[s].now + RATE_LIMIT_WINDOW)]_vars

\* a request that found the count at the ceiling in an expired window was
\* allowed and reset the record
C4_Witness ==
    \E s \in Slots :
        /\ req[s].pc = "parse"
        /\ req[s].kv = "written"
        /\ req[s].data.t = "object"
        /\ req[s].data.count = RATE_LIMIT_REQUESTS
        /\ req[s].data.resetAt < req[s].now
        /\ Stored(KeyOf(req[s])) = Obj(1, req[s].now + RATE_LIMIT_WINDOW)

FailedOpen == {"unbound", "getThrew", "putThrew"}

\* C5: when the namespace is not bound, or its get or put throws, the quota
\* check ends with the request allowed and waiting for its body, without a
\* response; every response to such a request is sent after that, and is
\* never a 429.
C5_FailOpen ==
    [][\A s \in Slots :
          /\ (req'[s].kv \in FailedOpen /\ req[s].kv \notin FailedOpen) =>
                 /\ req'[s].pc = "parse"
                 /\ req'[s].allowed
                 /\ out' = NoResponse
          /\ (out'.slot = s /\ out'.req.kv \in FailedOpen) =>
                 /\ req[s].pc = "parse"
                 /\ req[s].allowed
                 /\ out'.status # 429]_vars

\* the get threw while the record was at the ceiling in its window, and the
\* request is allowed
C5_Witness ==
    \E s \in Slots :
        /\ req[s].pc = "parse"
        /\ req[s].kv = "getThrew"
        /\ req[s].allowed
        /\ Stored(KeyOf(req[s])).t = "object"
        /\ Stored(KeyOf(req[s])).count >= RATE_LIMIT_REQUESTS
        /\ req[s].now <= Stored(KeyOf(req[s])).resetAt

\* C6: the read and the write of checkRateLimit are not one atomic step:
\* every write inside the window stores the count that this request read
\* plus 1, whatever other requests have written since, and the request is
\* allowed; so two requests that read the same record both store base + 1
\* and both pass.
C6_WritesFromItsOwnRead ==
    [][\A s \in Slots :
          (/\ PutResolved(s)
           /\ req[s].data.t = "object"
           /\ req[s].now <= req[s].data.resetAt) =>
              /\ req'[s].allowed
              /\ KVGetJSON(store'[KeyOf(req[s])]) =
                     Obj(req[s].data.count + 1, req[s].data.resetAt)]_vars

\* two requests in flight have both read count = ceiling - 1 in the same
\* window, both have written the ceiling and both are allowed: the window
\* has let more than RATE_LIMIT_REQUESTS requests through
C6_Witness ==
    \E s, u \in Slots :
        /\ s # u
        /\ req[s].pc = "parse" /\ req[u].pc = "parse"
        /\ req[s].kv = "written" /\ req[u].kv = "written"
        /\ req[s].allowed /\ req[u].allowed
        /\ req[s].clientIP = req[u].clientIP
        /\ req[s].data = req[u].data
        /\ req[s].data.t = "object"
        /\ req[s].data.count = RATE_LIMIT_REQUESTS - 1
        /\ req[s].now <= req[s].data.resetAt
        /\ req[u].now <= req[u].data.resetAt
        /\ req[s].putValue = req[u].putValue
        /\ req[s].putValue.count = RATE_LIMIT_REQUESTS
        /\ Stored(KeyOf(req[s])) = req[s].putValue

\* C7: a request has its upstream call issued, or is past its quota check,
\* only when that check has completed with allowed = true; a request answered
\* 429 has made no upstream call.
C7_UpstreamAfterQuota ==
    /\ \A s \in Slots :
          /\ req[s].pc \in {"parse", "upstream"} => req[s].allowed
          /\ req[s].upCalls > 0 => req[s].pc = "upstream" /\ req[s].allowed
          /\ req[s].pc \in {"get", "put"} => req[s].upCalls = 0
    /\ out.status = 429 => out.req.upCalls = 0
    /\ out.req.upCalls > 0 => out.req.allowed

\* an upstream call is in flight for a request whose quota check read and
\* wrote the store
C7_Witness ==
    \E s \in Slots :
        /\ req[s].pc = "upstream"
        /\ req[s].upCalls = 1
        /\ req[s].allowed
        /\ req[s].reads = 1
        /\ req[s].puts = 1

NonEmptyString(v) == v.t = "string" /\ v.s # ""

NoPromptString(body) ==
    /\ body.t = "object"
    /\ ~NonEmptyString(body.prompt)
    /\ ~NonEmptyString(body.message)

WrittenBy(r) ==
    IF r.data.t = "object" /\ r.now <= r.data.resetAt
    THEN Obj(r.data.count + 1, r.data.resetAt)
    ELSE Obj(1, r.now + RATE_LIMIT_WINDOW)

\* C9 as claimed: after a POST answered 400, the client's stored record is
\* the record the request found.
C9_Original ==
    [][\A s \in Slots :
          (Answers(s, 400) /\ req[s].kv \in {"written", "putThrew"}) =>
              KVGetJSON(store'[KeyOf(req[s])]) = req[s].data]_vars

\* C9 amended: a POST answered 400 is rejected after its quota check; the
\* rejection makes no upstream call and no store write of its own, but a
\* quota check that wrote has left the record counted up by one, or reset to
\* {1, now + RATE_LIMIT_WINDOW}.
C9_Amended ==
    [][\A s \in Slots :
          Answers(s, 400) =>
              /\ req[s].pc = "parse"
              /\ req[s].allowed
              /\ out'.req.upCalls = 0
              /\ store' = store
              /\ req[s].kv = "written" =>
                     /\ Stored(KeyOf(req[s])) = WrittenBy(req[s])
                     /\ Stored(KeyOf(req[s])) # req[s].data]_vars

\* a request answered 400 had raised the count of the record it found
C9_Witness ==
    /\ out.status = 400
    /\ out.req.kv = "written"
    /\ out.req.puts = 1
    /\ Stored(KeyOf(out.req)).count > 1

\* C10: an OPTIONS request is answered in the step it arrives in, with
\* status 204, whatever the store holds and whether or not the namespace is
\* bound; it reads and writes no store entry and calls no upstream.
C10_Preflight ==
    [][\A s \in Slots :
          /\ req'[s].method # "OPTIONS"
          /\ (out'.slot = s /\ out'.req.method = "OPTIONS") =>
                 /\ req[s].pc = "idle"
                 /\ out'.status = 204
                 /\ out'.body = NoBody
                 /\ out'.req.reads = 0
                 /\ out'.req.puts = 0
                 /\ out'.req.upCalls = 0
                 /\ store' = store]_vars

\* a pre-flight was answered 204 while the client's record is at the ceiling
C10_Witness ==
    /\ out.status = 204
    /\ out.req.method = "OPTIONS"
    /\ Stored(KeyOf(out.req)).t = "object"
    /\ Stored(KeyOf(out.req)).count = RATE_LIMIT_REQUESTS

\* C11 as claimed: a request whose method is neither OPTIONS nor POST is
\* answered 405 with no response body.
C11_Original ==
    (out.slot # 0 /\ out.req.method \notin {"OPTIONS", "POST"}) =>
        out.status = 405 /\ out.body = NoBody

\* C11 amended: a request whose method is neither OPTIONS nor POST is
\* answered in the step it arrives in with status 405 and the plain-text
\* body 'Method not allowed'; it reads and writes no store entry and calls
\* no upstream, and no such request is ever in flight.
C11_Amended ==
    [][\A s \in Slots :
          /\ req'[s].method \in {"", "OPTIONS", "POST"}
          /\ (out'.slot = s /\ out'.req.method \notin {"OPTIONS", "POST"}) =>
                 /\ req[s].pc = "idle"
                 /\ out'.status = 405
                 /\ out'.body = TextBody("Method not allowed")
                 /\ out'.req.reads = 0
                 /\ out'.req.puts = 0
                 /\ out'.req.upCalls = 0
                 /\ store' = store]_vars

\* a DELETE was answered 405 with the text, the client's record existing
C11_Witness ==
    /\ out.status = 405
    /\ out.req.method = "DELETE"
    /\ out.body.kind = "text"
    /\ out.body.text = "Method not allowed"
    /\ Stored(KeyOf(out.req)).t = "object"

\* C12: whatever the status and the text of the upstream's error reply, the
\* caller receives status 503 with the body
\* {"error": "AI service temporarily unavailable"}: the response to a
\* request is the same for every error reply of the upstream.
C12_ErrorDetailHidden ==
    out.req.reply # NoReply =>
        /\ out.status = 503
        /\ out.body = ErrorBody("AI service temporarily unavailable")
        /\ [out EXCEPT !.req.reply = NoReply] =
               [slot |-> out.slot, status |-> 503,
                body |-> ErrorBody("AI service temporarily unavailable"),
                req |-> [IdleReq EXCEPT !.method = "POST",
                                        !.clientIP = out.req.clientIP,
                                        !.allowed = TRUE, !.upCalls = 1,
                                        !.apiKey = out.req.apiKey,
                                        !.reads = out.req.reads,
                                        !.puts = out.req.puts]]

\* the upstream answered 529 'overloaded_error' and the caller got the 503
C12_Witness ==
    /\ out.status = 503
    /\ out.req.reply = [status |-> 529, text |-> "overloaded_error"]
    /\ out.req.upCalls = 1

ValidBody(body) == body.t = "object" /\ ValidPrompt(PromptText(body))

\* C13: a POST that passed the quota check with a valid prompt while
\* ANTHROPIC_API_KEY is not configured is answered 500 with the body
\* {"error": "Service configuration error"} and has made no upstream call;
\* no upstream call is ever in flight without the credential.
C13_NoCredentialIs500 ==
    /\ (/\ out.req.method = "POST"
         /\ out.req.allowed
         /\ ValidBody(out.req.body)
         /\ ~Truthy(out.req.apiKey)) =>
            /\ out.status = 500
            /\ out.body = ErrorBody("Service configuration error")
            /\ out.req.upCalls = 0
    /\ \A s \in Slots : req[s].upCalls > 0 => Truthy(req[s].apiKey)

\* a valid prompt was answered 500 because the credential is the empty
\* string; the quota check had counted the request
C13_Witness ==
    /\ out.status = 500
    /\ out.body.text = "Service configuration error"
    /\ out.req.body.t = "object"
    /\ out.req.body.prompt = Str("Hello")
    /\ out.req.apiKey = Str("")
    /\ out.req.kv = "written"
    /\ out.req.upCalls = 0

Stages == {"get", "put", "parse", "upstream"}

\* C14: every POST ends with exactly one response and no exception escapes:
\* a request in flight is a POST at an await that resolves or rejects into a
\* step of the handler; a request leaves its slot only in the step that
\* sends its response, and that step ends it; and whenever body parsing, the
\* upstream call or the extraction throws, the response is 500 with the body
\* {"error": "An unexpected error occurred"}, whatever the exception says.
C14_OneResponseNoEscape ==
    /\ [](\A s \in Slots :
            InFlight(s) =>
                /\ req[s].method = "POST"
                /\ req[s].pc \in Stages
                /\ req[s].caught = ""
                /\ ENABLED Handle(s))
    /\ [](out.req.caught # "" =>
            /\ out.status = 500
            /\ out.body = ErrorBody("An unexpected error occurred"))
    /\ [][\A s \in Slots :
            /\ (InFlight(s) /\ req'[s].pc = "idle") =>
                   /\ out'.slot = s
                   /\ out'.status # 0
                   /\ out'.req.method = "POST"
            /\ (out'.slot = s /\ out'.req.method = "POST") =>
                   /\ InFlight(s)
                   /\ req'[s] = IdleReq
            /\ (req[s].pc \in {"parse", "upstream"}
                   /\ req'[s].pc = "idle"
                   /\ out'.status \notin {200, 400, 503}
                   /\ out'.body # ErrorBody("Service configuration error")) =>
                   out'.req.caught # ""]_vars

\* the upstream call of a counted request failed in transport and the
\* caller got the catch-all 500
C14_Witness ==
    /\ out.status = 500
    /\ out.body = ErrorBody("An unexpected error occurred")
    /\ out.req.caught = "TypeError: fetch failed"
    /\ out.req.upCalls = 1
    /\ out.req.puts = 1

CallsWithinBudget(r) ==
    /\ r.reads <= 1
    /\ r.puts <= 1
    /\ r.puts <= r.reads
    /\ r.upCalls <= 1

\* C15: one request issues at most one get, at most one put, and the put
\* only in the step in which its get has resolved, and at most one upstream
\* call; no step removes a key from the store.
C15_CallBudget ==
    /\ [](CallsWithinBudget(out.req)
            /\ \A s \in Slots : CallsWithinBudget(req[s]))
    /\ [][/\ \A s \in Slots :
               /\ req'[s].reads > req[s].reads => req[s].pc = "get"
               /\ req'[s].puts > req[s].puts =>
                      /\ req[s].pc = "get"
                      /\ req'[s].reads = 1
                      /\ req'[s].data = Stored(KeyOf(req[s]))
               /\ req'[s].upCalls > req[s].upCalls => req[s].pc = "parse"
           /\ \A k \in Keys : store[k] # NoValue => store'[k] # NoValue]_vars

\* a request answered 200 has made one get, one put and one upstream call
C15_Witness ==
    /\ out.status = 200
    /\ out.req.reads = 1
    /\ out.req.puts = 1
    /\ out.req.upCalls = 1

\* the request read a record whose window is still open
InsideWindow(r) == r.data.t = "object" /\ r.now <= r.data.resetAt

\* C16: every put of checkRateLimit passes as expirationTtl the resetAt it
\* writes minus the request's now: RATE_LIMIT_WINDOW with a new or reset
\* record, the resetAt that was read minus now with an increment.
C16_TtlIsRemainingWindow ==
    \A s \in Slots :
        req[s].pc = "put" =>
            /\ req[s].putTtl = req[s].putValue.resetAt - req[s].now
            /\ InsideWindow(req[s]) =>
                   /\ req[s].putValue.resetAt = req[s].data.resetAt
                   /\ req[s].putTtl = req[s].data.resetAt - req[s].now
            /\ ~InsideWindow(req[s]) =>
                   /\ req[s].putValue.resetAt =
                          req[s].now + RATE_LIMIT_WINDOW
                   /\ req[s].putTtl = RATE_LIMIT_WINDOW

\* an increment one second into the window is being written with the
\* expiry one second short of the window
C16_Witness ==
    \E s \in Slots :
        /\ req[s].pc = "put"
        /\ InsideWindow(req[s])
        /\ req[s].putValue.count = 2
        /\ req[s].putTtl = RATE_LIMIT_WINDOW - 1

C18_Original ==
    \A s \in Slots :
        req[s].upCalls > 0 =>
            /\ req[s].body.system.t = "string" =>
                   req[s].sent.system = req[s].body.system
            /\ req[s].body.system = Undefined =>
                   req[s].sent.system = Str(DEFAULT_SYSTEM)

\* C18 amended: in every upstream call the system field is the body's
\* system string when that string is not empty, and the default persona
\* when the field is omitted or is the empty string.
C18_Amended ==
    \A s \in Slots :
        req[s].upCalls > 0 =>
            /\ NonEmptyString(req[s].body.system) =>
                   req[s].sent.system = req[s].body.system
            /\ req[s].body.system \in {Undefined, Str("")} =>
                   req[s].sent.system = Str(DEFAULT_SYSTEM)

\* a call is in flight with the default persona for a body whose system is
\* the empty string
C18_Witness ==
    \E s \in Slots :
        /\ req[s].pc = "upstream"
        /\ req[s].upCalls = 1
        /\ req[s].body.system = Str("")
        /\ req[s].sent.system = Str(DEFAULT_SYSTEM)

\* the limit that README.md documents
DocumentedLimit == 10

\* C19 as claimed: the limit is 10 requests per client and hour: with the
\* namespace bound and requests one after another, a POST that finds
\* DocumentedLimit requests already counted in the open window (the 11th)
\* is answered 429.
C19_EleventhIs429 ==
    [][\A s \in Slots :
          (/\ GetResolved(s)
           /\ store[KeyOf(req[s])] # NoValue
           /\ Stored(KeyOf(req[s])).count >= DocumentedLimit
           /\ req[s].now <= Stored(KeyOf(req[s])).resetAt) =>
              Answers(s, 429)]_vars

\* the text that getProgressData parses: localStorage's if it has one
EffectiveItem ==
    IF localStorage.kind = "disabled" THEN AbsentItem
    ELSE IF localStorage.kind = "progress" THEN localStorage
    ELSE IF localStorage.kind = "literal" /\ localStorage.s # ""
         THEN localStorage
    ELSE IF sessionStorage.kind = "disabled" THEN AbsentItem
    ELSE sessionStorage

\* the stored progress text marks lesson i complete
RecordedCompleted(i) ==
    /\ EffectiveItem.kind = "progress"
    /\ \E j \in 1 .. Len(EffectiveItem.members) :
           EffectiveItem.members[j] = <<LessonKey(i), TRUE>>

\* the stored text is JSON for a value that has no module1 member
NoModule1 ==
    /\ EffectiveItem.kind = "literal"
    /\ EffectiveItem.s \in {"null", "{}", "5"}

CompletedLessons == {i \in Lessons : RecordedCompleted(i)}

\* C21: when checkAccess(n) denies access, the window has been sent to
\* lesson-k.html, k the highest lesson in 1..4 marked complete, and to
\* index.html when no lesson is marked complete.
C21_RedirectsToLastCompleted ==
    (ret.fn = "checkAccess" /\ ~ret.value) =>
        /\ CompletedLessons = {} => href = "index.html"
        /\ \A k \in CompletedLessons :
               (\A j \in CompletedLessons : j <= k) => href = LessonPage(k)

\* lesson 4 was denied with lessons 1 and 2 complete, and the window is on
\* lesson-2.html
C21_Witness ==
    /\ ret = [NoReturn EXCEPT !.fn = "checkAccess", !.arg = 4,
                              !.value = FALSE]
    /\ CompletedLessons = {1, 2}
    /\ href = "lesson-2.html"

\* the step is a call of saveProgress or saveCheckpoint for lesson n
Completes(n) ==
    /\ ret'.fn \in {"saveProgress", "saveCheckpoint"}
    /\ ret'.arg = n

\* C22 as claimed: when the write to localStorage fails while lesson n is
\* completed and sessionStorage can be written, the completion is stored in
\* sessionStorage and the next getProgressData reports lesson n complete.
C22_FallsBackToSession ==
    [][\A n \in Lessons :
          (/\ Completes(n)
           /\ ~CanWrite(localStorage, "local", quotaExceeded)
           /\ CanWrite(sessionStorage, "session", quotaExceeded)) =>
              /\ sessionStorage'.kind = "progress"
              /\ \E j \in 1 .. Len(sessionStorage'.members) :
                     sessionStorage'.members[j] = <<LessonKey(n), TRUE>>
              /\ LessonOf(GetProgressData(localStorage', sessionStorage'),
                          LessonKey(n)) = Bool(TRUE)]_vars

\* the lessons that the stored progress text of the next state marks
\* complete, localStorage being readable and holding a progress text
RecordedNext(i) ==
    /\ localStorage'.kind = "progress"
    /\ \E j \in 1 .. Len(localStorage'.members) :
           localStorage'.members[j] = <<LessonKey(i), TRUE>>

\* C23: starting from empty progress, a saveProgress(n) whose write
\* succeeds records lesson n and keeps what was recorded, and after any
\* sequence of calls getProgress returns 25 times the number of lessons
\* recorded as completed: one of 0, 25, 50, 75, 100.
C23_ProgressIsQuarterSteps ==
    /\ [](ret.fn = "getProgress" =>
            /\ ret.percent = Num(25 * Cardinality(CompletedLessons))
            /\ ret.percent.n \in {0, 25, 50, 75, 100})
    /\ [][\A n \in Lessons :
            (/\ ret'.fn = "saveProgress"
             /\ ret'.arg = n
             /\ CanWrite(localStorage, "local", quotaExceeded)) =>
                /\ RecordedNext(n)
                /\ \A i \in Lessons \ {n} :
                       RecordedNext(i) <=> RecordedCompleted(i)]_vars

\* getProgress has returned 25 with lesson 1 the only lesson recorded
C23_Witness ==
    /\ ret.fn = "getProgress"
    /\ ret.percent = Num(25)
    /\ CompletedLessons = {1}

\* the key of the client's own record, as the claim spells it
OwnKey(r) == "ratelimit:" \o r.clientIP

\* C24: a request of client X reads and writes only the record under
\* "ratelimit:" + X: the value its get returns is that record, a step
\* changes no record but the one of the request whose put resolves, and a
\* request is answered 429 only when its own client's record is at the
\* ceiling inside its window, whatever the other records hold; a request
\* without the CF-Connecting-IP header is handled as client 'unknown'.
C24_ClientIsolation ==
    /\ [](\A s \in Slots :
            InFlight(s) => req[s].clientIP \in {"unknown", ThisClient.s})
    /\ [][\A s \in Slots :
            /\ GetResolved(s) =>
                   /\ OwnKey(req[s]) \in DOMAIN store
                   /\ req'[s].pc = "put" =>
                          req'[s].data = KVGetJSON(store[OwnKey(req[s])])
            /\ PutResolved(s) =>
                   \A k \in DOMAIN store :
                       store'[k] = IF k = OwnKey(req[s])
                                   THEN JSONStringify(req[s].putValue)
                                   ELSE store[k]
            /\ ~(\E u \in Slots : req[u].pc = "put") => store' = store
            /\ Answers(s, 429) =>
                   /\ store[OwnKey(req[s])] # NoValue
                   /\ KVGetJSON(store[OwnKey(req[s])]).count
                          >= RATE_LIMIT_REQUESTS
                   /\ req[s].now <= KVGetJSON(store[OwnKey(req[s])]).resetAt
           ]_vars

\* a request without the header has passed its quota check, counted under
\* 'unknown', while the record of the other client is at the ceiling
C24_Witness ==
    \E s \in Slots :
        /\ req[s].pc = "parse"
        /\ req[s].clientIP = "unknown"
        /\ req[s].kv = "written"
        /\ req[s].allowed
        /\ store["ratelimit:unknown"] # NoValue
        /\ store["ratelimit:203.0.113.7"] # NoValue
        /\ KVGetJSON(store["ratelimit:203.0.113.7"]).count
               = RATE_LIMIT_REQUESTS
        /\ req[s].now <= KVGetJSON(store["ratelimit:203.0.113.7"]).resetAt

\* the record the request in slot s read is still the one stored
ReadIsCurrent(s) == KVGetJSON(store[KeyOf(req[s])]) = req[s].data

\* C25 as claimed: for each client key, the resetAt of the stored record
\* never decreases from one write to the next, under any interleaving of
\* concurrent requests.
C25_Original ==
    [][\A k \in Keys :
          (store[k] # NoValue /\ store'[k] # NoValue) =>
              Stored(k).resetAt <= KVGetJSON(store'[k]).resetAt]_vars

\* C25: a write of checkRateLimit stores the resetAt the request read (an
\* increment) or its own now plus RATE_LIMIT_WINDOW (a new or reset record);
\* it does not lower the stored resetAt when the record the request read is
\* still the one stored, whatever the interleaving, and a record is never
\* removed.  A request whose read has been overwritten by a reset does
\* write the old window back.
C25_Amended ==
    [][/\ \A k \in Keys : store[k] # NoValue => store'[k] # NoValue
       /\ \A s \in Slots : PutResolved(s) =>
              /\ KVGetJSON(store'[KeyOf(req[s])]).resetAt =
                     WrittenBy(req[s]).resetAt
              /\ (store[KeyOf(req[s])] # NoValue /\ ReadIsCurrent(s)) =>
                     Stored(KeyOf(req[s])).resetAt <=
                         KVGetJSON(store'[KeyOf(req[s])]).resetAt]_vars

\* a request that found the record of a window already over has reset it to
\* a later resetAt while another request, which read the same record inside
\* its window, still has its increment to write
C25_Witness ==
    \E s, u \in Slots :
        /\ s # u
        /\ req[s].pc = "parse" /\ req[s].kv = "written"
        /\ req[s].data.t = "object" /\ req[s].data.resetAt < req[s].now
        /\ req[u].pc = "put" /\ req[u].data = req[s].data
        /\ Stored(KeyOf(req[s])) = Obj(1, req[s].now + RATE_LIMIT_WINDOW)
        /\ req[u].putValue.resetAt < Stored(KeyOf(req[s])).resetAt

\* C26: every put issued by checkRateLimit carries an expirationTtl of at
\* least one second, whatever the request's now relative to the resetAt it
\* read, now = resetAt included.
C26_PositiveExpiry ==
    \A s \in Slots : req[s].pc = "put" => req[s].putTtl >= 1

\* C27: starting from empty progress, when a lesson n is completed
\* (saveCheckpoint(n) or saveProgress(n)) only on a page load where
\* checkAccess(n) returned true, the completed lessons are in every
\* reachable state a prefix 1..k of the lessons: lesson n is never complete
\* while lesson n - 1 is not, and the save of lesson n finds lesson n - 1
\* complete.
C27_CompletedIsPrefix ==
    /\ [](\A n \in Lessons \ {1} :
             RecordedCompleted(n) => RecordedCompleted(n - 1))
    /\ [][\A n \in Lessons \ {1} :
             Completes(n) => (RecordedCompleted(n - 1) /\ href = LessonPage(n))]_vars

\* lessons 1, 2 and 3 are complete, lesson 4 is not, and the last call was
\* the saveCheckpoint(3) of the page lesson-3.html
C27_Witness ==
    /\ CompletedLessons = {1, 2, 3}
    /\ ret = [NoReturn EXCEPT !.fn = "saveCheckpoint", !.arg = 3]
    /\ href = LessonPage(3)
    /\ localCheckpoint[3] # AbsentItem

====
